---- MODULE Spec2Model ----
(***************************************************************************)
(* Model of the email relay's request handler (src/src/main.rs):          *)
(* send_email, validate_api_key, RateLimit::is_allowed, the               *)
(* Mutex<RateLimit> in AppState and EmailError's response mapping.        *)
(* Each concurrently running handler invocation is a task; the steps of   *)
(* a task follow the statements of send_email in order.                   *)
(***************************************************************************)
EXTENDS Integers, Sequences, FiniteSets, TLC

VARIABLES
    now,        \* the wall clock read by SystemTime::now()
    requests,   \* RateLimit.requests: identity -> sequence of timestamps
    holder,     \* task owning the MutexGuard of AppState.rate_limit, or NoTask
    poisoned,   \* poison flag of the std::sync::Mutex
    api_key,    \* app_config.server.api_key
    pc,         \* per task: position inside send_email
    ip,         \* per task: local `ip`
    tnow,       \* per task: local `now` of is_allowed
    key,        \* per task: the X-API-Key header the request carried
    req,        \* per task: the EmailRequest body (read when the message is built)
    email,      \* per task: the built lettre Message
    sends,      \* per task: calls of smtp_transport.send made for the request
    outcome,    \* per task: Ok or the EmailError the handler returned
    resp,       \* per task: the HTTP response produced
    hist,       \* history: per identity, the latest admission timestamps
    xff,        \* per task: the X-Forwarded-For header `ip` was derived from,
                \* kept while the request waits for the lock (not read afterwards)
    rewound     \* the wall clock has been set back

vars == <<now, requests, holder, poisoned, api_key, pc, ip, tnow, key, req,
          email, sends, outcome, resp, hist, xff, rewound>>

-----------------------------------------------------------------------------
(* Bounds of the model *)

NumTasks == 2
MaxTime == 61
TickSteps == {59, 60}

Tasks == 1..NumTasks
NoTask == 0

(* Program constants *)

Window == 60
Capacity == 10

-----------------------------------------------------------------------------
(* Header values: absent, bytes that are not visible ASCII, or a string *)

NoHeader == [kind |-> "absent", val |-> ""]
OpaqueHeader == [kind |-> "opaque", val |-> ""]
Hdr(s) == [kind |-> "str", val |-> s]

Secrets == {"s3cret", "hunter2"}
KeyHeaders == {NoHeader, OpaqueHeader} \cup
              {Hdr(s) : s \in Secrets \cup {"", "S3CRET", "s3cret "}}

Identities == {"unknown", "10.0.0.1"}
XffHeaders == {NoHeader, OpaqueHeader} \cup {Hdr(s) : s \in Identities}


(* Static configuration (AppConfig.email) and the request bodies tried *)

EmailConfig == [email_from |-> "noreply@example.com",
                email_to |-> "ops@example.com",
                sender_name |-> "Relay"]

Addresses == {"noreply@example.com", "ops@example.com",
              "alice@example.com", "bob@example.com"}
DisplayNames == {"Relay", "Alice"}

EmailRequests == [from : {"", "alice@example.com", "not-an-address"},
                  to : {"", "bob@example.com", "bob@@example"},
                  sender_name : {"", "Alice"},
                  subject : {"", "hi"},
                  body : {"there"}]

TransportErrors == {"connection refused"}

NoRequest == [from |-> "", to |-> "", sender_name |-> "", subject |-> "", body |-> ""]
NoMailbox == [ok |-> FALSE, name |-> "", email |-> ""]
NoEmail == [from |-> NoMailbox, to |-> NoMailbox, subject |-> "", body |-> ""]
NoResp == [code |-> 0, status |-> "", message |-> ""]

-----------------------------------------------------------------------------
(* validate_api_key with the comparison skipped for an empty header value *)
validate_api_key_empty_ok(header, config_api_key) ==
    IF header.kind = "absent" THEN "MissingApiKey"
    ELSE IF header.kind = "opaque" THEN "InvalidApiKey"
    ELSE IF header.val # "" /\ header.val # config_api_key THEN "InvalidApiKey"
    ELSE "Ok"

(* validate_api_key: Ok or the EmailError returned *)

validate_api_key(header, config_api_key) ==
    IF header.kind = "absent" THEN "MissingApiKey"
    ELSE IF header.kind = "opaque" THEN "InvalidApiKey"
    ELSE IF header.val # config_api_key THEN "InvalidApiKey"
    ELSE "Ok"

(* every request counted under the one identity "unknown" *)
ClientIpUnknown(header) ==
    "unknown"

(* headers.get("x-forwarded-for").and_then(to_str().ok()).unwrap_or("unknown") *)
ClientIp(header) ==
    IF header.kind = "str" THEN header.val ELSE "unknown"

(* duration_since with an Err taken as a full window *)
DurationSinceOrStale(t, time) ==
    IF t >= time THEN t - time ELSE Window

(* now.duration_since(time).unwrap_or(Duration::from_secs(0)) *)
DurationSince(t, time) ==
    IF t >= time THEN t - time ELSE 0

(* retain with the age taken from the entry to now's past *)
RetainSwapped(log, t) ==
    SelectSeq(log, LAMBDA time : DurationSince(time, t) < Window)

(* retain that keeps an entry aged exactly one window *)
RetainInclusive(log, t) ==
    SelectSeq(log, LAMBDA time : DurationSince(t, time) <= Window)

(* requests.retain(|&time| now.duration_since(time).unwrap_or(0) < 60s) *)
Retain(log, t) ==
    SelectSeq(log, LAMBDA time : DurationSince(t, time) < Window)

(* an insert that starts the table afresh *)
EntryOrInsertFresh(table, id) ==
    IF id \in DOMAIN table THEN table ELSE (id :> <<>>)

(* self.requests.entry(ip.to_string()).or_insert(Vec::new()) *)
EntryOrInsert(table, id) ==
    IF id \in DOMAIN table THEN table ELSE table @@ (id :> <<>>)

(* the capacity test written with > *)
LimitReachedOffByOne(log) ==
    Len(log) > Capacity

(* requests.len() >= 10 *)
LimitReached(log) ==
    Len(log) >= Capacity

(* format!("{} <{}>", sender_name, from) *)
FormatFrom(name, addr) ==
    name \o " <" \o addr \o ">"

(* str::parse::<Mailbox>(): a bare address or "name <address>" *)
ParseMailbox(s) ==
    IF s \in Addresses THEN [ok |-> TRUE, name |-> "", email |-> s]
    ELSE IF \E n \in DisplayNames, a \in Addresses : FormatFrom(n, a) = s
    THEN LET p == CHOOSE q \in DisplayNames \X Addresses : FormatFrom(q[1], q[2]) = s
         IN [ok |-> TRUE, name |-> p[1], email |-> p[2]]
    ELSE NoMailbox

(* the request's value or the configured default *)
EffectiveFrom(r) ==
    IF r.from = "" THEN EmailConfig.email_from ELSE r.from

EffectiveTo(r) ==
    IF r.to = "" THEN EmailConfig.email_to ELSE r.to

(* the sender name taken from the configuration whatever the request says *)
EffectiveSenderNameConfigOnly(r) ==
    EmailConfig.sender_name

EffectiveSenderName(r) ==
    IF r.sender_name # "" THEN r.sender_name ELSE EmailConfig.sender_name

(* Message::builder().from(..).to(..).subject(..).body(..) *)
BuildMessage(r) ==
    [from |-> ParseMailbox(FormatFrom(EffectiveSenderName(r), EffectiveFrom(r))),
     to |-> ParseMailbox(EffectiveTo(r)),
     subject |-> r.subject,
     body |-> r.body]

(* the two parse().unwrap() calls succeed *)
BuildSucceeds(r) ==
    BuildMessage(r).from.ok /\ BuildMessage(r).to.ok

(* a transport failure answered without the transport's error text *)
IntoResponseOpaque(result, text) ==
    CASE result = "Ok" ->
           [code |-> 200, status |-> "success", message |-> "Email sent successfully"]
      [] result = "SmtpError" ->
           [code |-> 500, status |-> "error", message |-> "Failed to send email"]
      [] result = "RateLimit" ->
           [code |-> 429, status |-> "error", message |-> "Rate limit exceeded"]
      [] result = "InvalidApiKey" ->
           [code |-> 401, status |-> "error", message |-> "Invalid API key"]
      [] result = "MissingApiKey" ->
           [code |-> 401, status |-> "error", message |-> "Missing API key"]

(* impl IntoResponse for EmailError, and the Ok arm of send_email *)
IntoResponse(result, text) ==
    CASE result = "Ok" ->
           [code |-> 200, status |-> "success", message |-> "Email sent successfully"]
      [] result = "SmtpError" ->
           [code |-> 500, status |-> "error", message |-> "Failed to send email: " \o text]
      [] result = "RateLimit" ->
           [code |-> 429, status |-> "error", message |-> "Rate limit exceeded"]
      [] result = "InvalidApiKey" ->
           [code |-> 401, status |-> "error", message |-> "Invalid API key"]
      [] result = "MissingApiKey" ->
           [code |-> 401, status |-> "error", message |-> "Missing API key"]

-----------------------------------------------------------------------------
(* The state after construction: main builds AppState with RateLimit::new() *)

EmptyTable == [i \in {} |-> <<>>]

InitOver(S) ==
    /\ now = 0
    /\ requests = EmptyTable
    /\ holder = NoTask
    /\ poisoned = FALSE
    /\ api_key \in S
    /\ pc = [t \in Tasks |-> "idle"]
    /\ ip = [t \in Tasks |-> ""]
    /\ tnow = [t \in Tasks |-> 0]
    /\ key = [t \in Tasks |-> NoHeader]
    /\ req = [t \in Tasks |-> NoRequest]
    /\ email = [t \in Tasks |-> NoEmail]
    /\ sends = [t \in Tasks |-> 0]
    /\ outcome = [t \in Tasks |-> ""]
    /\ resp = [t \in Tasks |-> NoResp]
    /\ hist = [i \in Identities |-> <<>>]
    /\ xff = [t \in Tasks |-> NoHeader]
    /\ rewound = FALSE

(* a lock that never makes a caller wait *)
MutexNeverBlocks(t) ==
    TRUE

(* std::sync::Mutex: lock() blocks while another task owns the guard *)
MutexFree(t) ==
    holder = NoTask

(* dropping the MutexGuard; dropping it while unwinding poisons the mutex *)
DropGuard(t, panicking) ==
    /\ holder' = IF holder = t THEN NoTask ELSE holder
    /\ poisoned' = (poisoned \/ (panicking /\ holder = t))

(* the handler returns `result`: its locals and the request's headers die *)
(* and axum writes the response                                           *)
Respond(t, result, text) ==
    /\ pc' = [pc EXCEPT ![t] = "responded"]
    /\ outcome' = [outcome EXCEPT ![t] = result]
    /\ resp' = [resp EXCEPT ![t] = IntoResponse(result, text)]
    /\ tnow' = [tnow EXCEPT ![t] = 0]
    /\ email' = [email EXCEPT ![t] = NoEmail]
    /\ xff' = [xff EXCEPT ![t] = NoHeader]

(* an unwrap() panics: the task unwinds and no response is written *)
Panic(t) ==
    /\ pc' = [pc EXCEPT ![t] = "panicked"]
    /\ tnow' = [tnow EXCEPT ![t] = 0]
    /\ email' = [email EXCEPT ![t] = NoEmail]
    /\ xff' = [xff EXCEPT ![t] = NoHeader]
    /\ UNCHANGED <<outcome, resp>>

(* the last Capacity + 1 admission timestamps of an identity *)
Remember(h, time) ==
    LET a == Append(h, time)
    IN IF Len(a) > Capacity + 1 THEN Tail(a) ELSE a

-----------------------------------------------------------------------------
(* send_email, statement by statement *)

(* the handler with the rate-limit record made before the credential is checked *)
AuthenticateAfterRecord(t, K, X) ==
    /\ pc[t] \in {"idle", "responded", "panicked"}
    /\ \E k \in K, x \in X :
         LET r == validate_api_key(k, api_key)
         IN /\ key' = [key EXCEPT ![t] = k]
            /\ sends' = [sends EXCEPT ![t] = 0]
            /\ req' = [req EXCEPT ![t] = NoRequest]
            /\ IF r # "Ok"
               THEN /\ Respond(t, r, "")
                    /\ ip' = [ip EXCEPT ![t] = ""]
                    /\ requests' = [EntryOrInsert(requests, ClientIp(x))
                                      EXCEPT ![ClientIp(x)] = Append(@, now)]
               ELSE /\ pc' = [pc EXCEPT ![t] = "lock"]
                    /\ xff' = [xff EXCEPT ![t] = x]
                    /\ ip' = [ip EXCEPT ![t] = ClientIp(x)]
                    /\ outcome' = [outcome EXCEPT ![t] = ""]
                    /\ resp' = [resp EXCEPT ![t] = NoResp]
                    /\ UNCHANGED <<tnow, email, requests>>
    /\ UNCHANGED <<now, holder, poisoned, api_key, rewound, hist>>

(* a request is dispatched to the handler; validate_api_key(..)? and `ip` *)
Authenticate(t, K, X) ==
    /\ pc[t] \in {"idle", "responded", "panicked"}
    /\ \E k \in K, x \in X :
         LET r == validate_api_key(k, api_key)
         IN /\ key' = [key EXCEPT ![t] = k]
            /\ sends' = [sends EXCEPT ![t] = 0]
            /\ req' = [req EXCEPT ![t] = NoRequest]
            /\ IF r # "Ok"
               THEN /\ Respond(t, r, "")
                    /\ ip' = [ip EXCEPT ![t] = ""]
               ELSE /\ pc' = [pc EXCEPT ![t] = "lock"]
                    /\ xff' = [xff EXCEPT ![t] = x]
                    /\ ip' = [ip EXCEPT ![t] = ClientIp(x)]
                    /\ outcome' = [outcome EXCEPT ![t] = ""]
                    /\ resp' = [resp EXCEPT ![t] = NoResp]
                    /\ UNCHANGED <<tnow, email>>
    /\ UNCHANGED <<now, requests, holder, poisoned, api_key, rewound, hist>>

(* state.rate_limit.lock().unwrap() *)
Lock(t) ==
    /\ pc[t] = "lock"
    /\ MutexFree(t)
    /\ IF poisoned
       THEN /\ Panic(t)
            /\ UNCHANGED holder
       ELSE /\ holder' = t
            /\ pc' = [pc EXCEPT ![t] = "retain"]
            /\ xff' = [xff EXCEPT ![t] = NoHeader]
            /\ UNCHANGED <<tnow, email, outcome, resp>>
    /\ UNCHANGED <<now, requests, poisoned, api_key, rewound, ip, key, req, sends, hist>>

(* is_allowed without the retain *)
IsAllowedRetainNoPrune(t) ==
    /\ pc[t] = "retain"
    /\ tnow' = [tnow EXCEPT ![t] = now]
    /\ requests' = EntryOrInsert(requests, ip[t])
    /\ pc' = [pc EXCEPT ![t] = "check"]
    /\ UNCHANGED <<now, holder, poisoned, api_key, xff, rewound, ip, key, req, email, sends,
                   outcome, resp, hist>>

(* is_allowed: now, entry().or_insert(), retain() *)
IsAllowedRetain(t) ==
    /\ pc[t] = "retain"
    /\ tnow' = [tnow EXCEPT ![t] = now]
    /\ requests' = [EntryOrInsert(requests, ip[t]) EXCEPT ![ip[t]] = Retain(@, now)]
    /\ pc' = [pc EXCEPT ![t] = "check"]
    /\ UNCHANGED <<now, holder, poisoned, api_key, xff, rewound, ip, key, req, email, sends,
                   outcome, resp, hist>>

(* is_allowed with the push made before the capacity test *)
IsAllowedCheckRecordFirst(t) ==
    /\ pc[t] = "check"
    /\ IF LimitReached(requests[ip[t]])
       THEN /\ Respond(t, "RateLimit", "")
            /\ DropGuard(t, FALSE)
            /\ requests' = [requests EXCEPT ![ip[t]] = Append(@, tnow[t])]
       ELSE /\ pc' = [pc EXCEPT ![t] = "push"]
            /\ UNCHANGED <<holder, poisoned, tnow, email, outcome, resp, xff, requests>>
    /\ UNCHANGED <<now, api_key, rewound, ip, key, req, sends, hist>>

(* is_allowed: if requests.len() >= 10 { return false }, and then *)
(* send_email: return Err(EmailError::RateLimit)                   *)
IsAllowedCheck(t) ==
    /\ pc[t] = "check"
    /\ IF LimitReached(requests[ip[t]])
       THEN /\ Respond(t, "RateLimit", "")
            /\ DropGuard(t, FALSE)
       ELSE /\ pc' = [pc EXCEPT ![t] = "push"]
            /\ UNCHANGED <<holder, poisoned, tnow, email, outcome, resp, xff>>
    /\ UNCHANGED <<now, requests, api_key, rewound, ip, key, req, sends, hist>>

(* is_allowed: requests.push(now); true *)
IsAllowedPush(t) ==
    /\ pc[t] = "push"
    /\ requests' = [requests EXCEPT ![ip[t]] = Append(@, tnow[t])]
    /\ hist' = [hist EXCEPT ![ip[t]] = Remember(@, tnow[t])]
    /\ pc' = [pc EXCEPT ![t] = "build"]
    /\ UNCHANGED <<now, holder, poisoned, api_key, xff, rewound, ip, tnow, key, req, email,
                   sends, outcome, resp>>

(* default resolution, format!, Message::builder()...unwrap() *)
Build(t, B) ==
    /\ pc[t] = "build"
    /\ \E r \in B :
         /\ req' = [req EXCEPT ![t] = r]
         /\ IF BuildSucceeds(r)
            THEN /\ email' = [email EXCEPT ![t] = BuildMessage(r)]
                 /\ pc' = [pc EXCEPT ![t] = "send"]
                 /\ UNCHANGED <<holder, poisoned, tnow, outcome, resp, xff>>
            ELSE /\ Panic(t)
                 /\ DropGuard(t, TRUE)
    /\ UNCHANGED <<now, requests, api_key, rewound, ip, key, sends, hist>>

(* state.smtp_transport.send(&email) is called *)
SendStart(t) ==
    /\ pc[t] = "send"
    /\ sends' = [sends EXCEPT ![t] = @ + 1]
    /\ pc' = [pc EXCEPT ![t] = "sending"]
    /\ UNCHANGED <<now, requests, holder, poisoned, api_key, xff, rewound, ip, tnow, key, req,
                   email, outcome, resp, hist>>

(* a send whose failure is tried again *)
SendReturnRetry(t) ==
    /\ pc[t] = "sending"
    /\ \/ /\ Respond(t, "Ok", "")
          /\ DropGuard(t, FALSE)
       \/ /\ sends[t] < 2
          /\ pc' = [pc EXCEPT ![t] = "send"]
          /\ UNCHANGED <<holder, poisoned, tnow, email, outcome, resp, xff>>
       \/ /\ sends[t] >= 2
          /\ \E e \in TransportErrors : Respond(t, "SmtpError", e)
          /\ DropGuard(t, FALSE)
    /\ UNCHANGED <<now, requests, api_key, rewound, ip, key, req, sends, hist>>

(* a failed send that takes the request's timestamp out of the log again *)
SendReturnRefund(t) ==
    /\ pc[t] = "sending"
    /\ \/ /\ Respond(t, "Ok", "")
          /\ UNCHANGED requests
       \/ /\ \E e \in TransportErrors : Respond(t, "SmtpError", e)
          /\ requests' = [requests EXCEPT ![ip[t]] = SubSeq(@, 1, Len(@) - 1)]
    /\ DropGuard(t, FALSE)
    /\ UNCHANGED <<now, api_key, rewound, ip, key, req, sends, hist>>

(* send returns Ok(_) or Err(e); the handler returns and its guard is dropped *)
SendReturn(t) ==
    /\ pc[t] = "sending"
    /\ \/ Respond(t, "Ok", "")
       \/ \E e \in TransportErrors : Respond(t, "SmtpError", e)
    /\ DropGuard(t, FALSE)
    /\ UNCHANGED <<now, requests, api_key, rewound, ip, key, req, sends, hist>>

(* time passes *)
Tick(D) ==
    /\ \E d \in D : /\ now + d <= MaxTime
                            /\ now' = now + d
    /\ UNCHANGED <<requests, holder, poisoned, api_key, xff, rewound, pc, ip, tnow, key, req,
                   email, sends, outcome, resp, hist>>

(* the wall clock is set back, once *)
ClockBack(D) ==
    /\ ~rewound
    /\ \E d \in D : /\ now - d >= 0
                    /\ now' = now - d
    /\ rewound' = TRUE
    /\ UNCHANGED <<requests, holder, poisoned, api_key, pc, ip, tnow, key, req,
                   email, sends, outcome, resp, hist, xff>>

-----------------------------------------------------------------------------
(* Specifications.  The handler's steps are the same in each; they differ *)
(* in the requests that arrive: the X-API-Key headers K, the              *)
(* X-Forwarded-For headers X and the bodies B.                            *)

Handler(K, X, B) ==
    \/ \E t \in Tasks : Authenticate(t, K, X)
    \/ \E t \in Tasks : Lock(t)
    \/ \E t \in Tasks : IsAllowedRetain(t)
    \/ \E t \in Tasks : IsAllowedCheck(t)
    \/ \E t \in Tasks : IsAllowedPush(t)
    \/ \E t \in Tasks : Build(t, B)
    \/ \E t \in Tasks : SendStart(t)
    \/ \E t \in Tasks : SendReturn(t)

KeysFew == {NoHeader, Hdr("s3cret"), Hdr("hunter2")}
XffUnknown == {NoHeader, OpaqueHeader, Hdr("unknown")}
DefaultBody == [from |-> "", to |-> "", sender_name |-> "", subject |-> "hi", body |-> "there"]
BodiesFew == {DefaultBody,
              [DefaultBody EXCEPT !.to = "bob@@example"],
              [DefaultBody EXCEPT !.from = "not-an-address"]}

(* one bucket under an advancing clock *)
Init == InitOver({"s3cret"})
Next == Handler(KeysFew, XffUnknown, BodiesFew) \/ Tick(TickSteps)
Spec == Init /\ [][Next]_vars

(* two buckets at one instant *)
KeysTwo == {NoHeader, Hdr("s3cret")}
XffTwo == {NoHeader, Hdr("10.0.0.1")}
BodiesTwo == {DefaultBody, [DefaultBody EXCEPT !.to = "bob@@example"]}
NextIds == Handler(KeysTwo, XffTwo, BodiesTwo)
SpecIds == Init /\ [][NextIds]_vars

(* every credential against every secret *)
InitAuth == InitOver(Secrets)
NextAuth == Handler(KeyHeaders, {NoHeader}, {DefaultBody})
SpecAuth == InitAuth /\ [][NextAuth]_vars

(* every request body *)
NextBuild == Handler({Hdr("s3cret")}, {NoHeader}, EmailRequests)
SpecBuild == Init /\ [][NextBuild]_vars

(* one bucket, well-formed requests, a clock that crosses the window in two steps *)
KeysValid == {Hdr("s3cret")}
AgingSteps == {30, 31}
NextAged == Handler(KeysValid, {NoHeader}, {DefaultBody}) \/ Tick(AgingSteps)
SpecAged == Init /\ [][NextAged]_vars

(* one bucket, well-formed requests, a clock that is set back once *)
BackSteps == {61}
NextBack == Handler(KeysValid, {NoHeader}, {DefaultBody})
              \/ Tick(BackSteps) \/ ClockBack(BackSteps)
SpecBack == Init /\ [][NextBack]_vars

(* one bucket at one instant, under a fair scheduler: a handler that can   *)
(* take its next step takes it, a task waiting for the mutex gets it if it *)
(* is free again and again, and the transport call returns                 *)
NextLive == Handler(KeysValid, {NoHeader}, BodiesTwo)
Fairness ==
    \A t \in Tasks :
        /\ SF_vars(Lock(t))
        /\ WF_vars(IsAllowedRetain(t))
        /\ WF_vars(IsAllowedCheck(t))
        /\ WF_vars(IsAllowedPush(t))
        /\ WF_vars(Build(t, BodiesTwo))
        /\ WF_vars(SendStart(t))
        /\ WF_vars(SendReturn(t))
SpecLive == Init /\ [][NextLive]_vars /\ Fairness

-----------------------------------------------------------------------------
(* Properties *)

Finished(t) == pc[t] \in {"responded", "panicked"}
Authenticated(t) == key[t] = Hdr(api_key)
InWindow(t, time) == t - time < Window

(* C1: no 11 admissions of one identity span less than 60 seconds, and a   *)
(* request about to be recorded at time T has fewer than 10 admissions of  *)
(* its identity less than 60 seconds before T.                             *)
C1_SlidingWindowCap ==
    /\ \A i \in Identities :
         Len(hist[i]) = Capacity + 1 => hist[i][Capacity + 1] - hist[i][1] >= Window
    /\ \A t \in Tasks :
         pc[t] = "push" =>
           Cardinality({k \in 1..Len(hist[ip[t]]) : InWindow(tnow[t], hist[ip[t]][k])})
             < Capacity

(* ten admissions between time 0 and time 59, and a request rejected at 59 *)
C1_Witness ==
    /\ now = 59
    /\ Len(hist["unknown"]) = Capacity
    /\ hist["unknown"][1] = 0
    /\ hist["unknown"][Capacity] = 59
    /\ \E t \in Tasks : pc[t] = "responded" /\ outcome[t] = "RateLimit"

(* C2: no transport send is in progress in a task that holds the           *)
(* rate-limit lock.                                                        *)
C2_SendOutsideLock ==
    \A t \in Tasks : pc[t] = "sending" => holder # t

(* C3: a request whose effective from or to address is malformed ends      *)
(* with a client-error response and without a send; it never panics.       *)
C3_MalformedAddressIsClientError ==
    \A t \in Tasks :
        (Finished(t) /\ req[t] # NoRequest /\ ~BuildSucceeds(req[t])) =>
            /\ pc[t] = "responded"
            /\ resp[t].code \in 400..499
            /\ sends[t] = 0

(* C4: the rate-limit state stays usable after any failure: an             *)
(* authenticated request that ends before its message is built ended       *)
(* because it was rate-limited, never because an earlier request failed.   *)
C4_FailuresAreRequestScoped ==
    \A t \in Tasks :
        (Finished(t) /\ Authenticated(t) /\ req[t] = NoRequest) =>
            pc[t] = "responded" /\ outcome[t] = "RateLimit"

(* C5: the step in which a request is answered for a missing or wrong      *)
(* X-API-Key answers 401 and leaves the rate-limit table as it was.        *)
C5_AuthFailureLeavesTable ==
    [][\A t \in Tasks :
         ( /\ pc'[t] = "responded"
           /\ outcome'[t] \in {"MissingApiKey", "InvalidApiKey"}
           /\ <<pc[t], outcome[t], key[t]>> # <<pc'[t], outcome'[t], key'[t]>> )
         => (requests' = requests /\ resp'[t].code = 401)]_vars

(* a 401 answered, and the bucket holding its ten admissions *)
C5_Witness ==
    /\ \E t \in Tasks : pc[t] = "responded" /\ resp[t].code = 401 /\ ~Authenticated(t)
    /\ "unknown" \in DOMAIN requests
    /\ Len(requests["unknown"]) = Capacity

(* C6: a finished request made one send if it passed authentication, the   *)
(* rate-limit check and message build, and none otherwise; never two.      *)
C6_SendAttempts ==
    \A t \in Tasks :
        /\ sends[t] \in {0, 1}
        /\ Finished(t) =>
             sends[t] = IF /\ Authenticated(t)
                           /\ outcome[t] # "RateLimit"
                           /\ req[t] # NoRequest
                           /\ BuildSucceeds(req[t])
                        THEN 1 ELSE 0

(* a failed send, answered after one attempt *)
C6_Witness ==
    \E t \in Tasks : pc[t] = "responded" /\ outcome[t] = "SmtpError" /\ sends[t] = 1

(* C7: whatever other identities sent, an authenticated request of an      *)
(* identity with no earlier admission is admitted: once it has finished,   *)
(* its identity has an admission.                                          *)
C7_IdentityIsolation ==
    \A t \in Tasks :
        (Finished(t) /\ Authenticated(t)) => hist[ip[t]] # <<>>

(* C8: at most one task is between the prune and the append, and a task    *)
(* about to append still finds fewer than 10 entries in its log.           *)
C8_CheckAndRecordAtomic ==
    /\ \A t, u \in Tasks :
         (t # u /\ pc[t] \in {"retain", "check", "push"})
           => pc[u] \notin {"retain", "check", "push"}
    /\ \A t \in Tasks : pc[t] = "push" => Len(requests[ip[t]]) < Capacity

(* a task about to take the last free slot while another request of the    *)
(* same identity waits for the lock                                        *)
C8_Witness ==
    \E t, u \in Tasks :
        /\ t # u
        /\ pc[t] = "push"
        /\ Len(requests[ip[t]]) = Capacity - 1
        /\ pc[u] = "lock"
        /\ ip[u] = ip[t]

(* C9: a request without X-API-Key ends in MissingApiKey, one whose header *)
(* is not exactly the configured secret in InvalidApiKey, and one whose    *)
(* header is the secret in neither.                                        *)
C9_Authentication ==
    \A t \in Tasks :
        pc[t] # "idle" =>
            IF key[t].kind = "absent"
            THEN pc[t] = "responded" /\ outcome[t] = "MissingApiKey"
            ELSE IF key[t].kind # "str" \/ key[t].val # api_key
            THEN pc[t] = "responded" /\ outcome[t] = "InvalidApiKey"
            ELSE outcome[t] \notin {"MissingApiKey", "InvalidApiKey"}

(* the other configuration's secret, refused *)
C9_Witness ==
    \E t \in Tasks :
        /\ api_key = "hunter2"
        /\ key[t] = Hdr("s3cret")
        /\ outcome[t] = "InvalidApiKey"

(* C10: a built message takes from, to and sender_name from the request    *)
(* where they are non-empty and from the configuration where they are      *)
(* empty, its From header is "{sender_name} <{from}>", and subject and     *)
(* body are the request's.                                                 *)
C10_MessageBuilding ==
    \A t \in Tasks :
        pc[t] \in {"send", "sending"} =>
            LET r == req[t]
                m == email[t]
                f == IF r.from = "" THEN EmailConfig.email_from ELSE r.from
                n == IF r.sender_name = "" THEN EmailConfig.sender_name ELSE r.sender_name
                d == IF r.to = "" THEN EmailConfig.email_to ELSE r.to
            IN /\ m.from.ok /\ m.to.ok
               /\ m.from.email = f
               /\ m.from.name = n
               /\ m.from.name \o " <" \o m.from.email \o ">" = n \o " <" \o f \o ">"
               /\ m.to.email = d
               /\ m.subject = r.subject
               /\ m.body = r.body

(* from and sender_name given, to left to the default *)
C10_Witness ==
    \E t \in Tasks :
        /\ pc[t] = "sending"
        /\ req[t].from = "alice@example.com"
        /\ req[t].sender_name = "Alice"
        /\ req[t].to = ""
        /\ email[t].to.email = "ops@example.com"

(* C11: every outcome has exactly one response: Ok is 200 with status      *)
(* "success"; MissingApiKey and InvalidApiKey are 401; RateLimit is 429;   *)
(* SmtpError is a 5xx whose message ends with the transport's error text;  *)
(* every error body has status "error"; an outcome is never set without a  *)
(* response being written.                                                 *)
C11_ResponseMapping ==
    \A t \in Tasks :
        /\ outcome[t] \in {"", "Ok", "SmtpError", "RateLimit", "InvalidApiKey", "MissingApiKey"}
        /\ (outcome[t] = "") <=> (resp[t] = NoResp)
        /\ outcome[t] # "" => pc[t] = "responded"
        /\ pc[t] = "responded" => outcome[t] # ""
        /\ outcome[t] = "Ok" => resp[t].code = 200 /\ resp[t].status = "success"
        /\ outcome[t] \in {"MissingApiKey", "InvalidApiKey"} => resp[t].code = 401
        /\ outcome[t] = "RateLimit" => resp[t].code = 429
        /\ outcome[t] = "SmtpError" =>
              /\ resp[t].code \in 500..599
              /\ \E e \in TransportErrors :
                    resp[t].message = "Failed to send email: " \o e
        /\ outcome[t] \notin {"", "Ok"} => resp[t].status = "error"

(* a failed send answered 500, and a rate-limited request answered 429 *)
C11_Witness ==
    \E t, u \in Tasks :
        /\ outcome[t] = "SmtpError" /\ resp[t].code = 500
        /\ outcome[u] = "RateLimit" /\ resp[u].code = 429

(* C12: a check at time T that finds 10 timestamps in the identity's log,  *)
(* one of them more than 60 seconds old, leaves room after its prune; a    *)
(* check that finds room goes on to record, and the record appends T.      *)
C12_ReadmissionAfterAging ==
    [][\A t \in Tasks :
         /\ ( /\ pc[t] = "retain" /\ pc'[t] = "check"
              /\ ip[t] \in DOMAIN requests
              /\ Len(requests[ip[t]]) = Capacity
              /\ \E k \in 1..Capacity : now - requests[ip[t]][k] > Window )
            => (tnow'[t] = now /\ Len(requests'[ip[t]]) < Capacity)
         /\ ( /\ pc[t] = "check" /\ pc'[t] # "check"
              /\ Len(requests[ip[t]]) < Capacity )
            => pc'[t] = "push"
         /\ (pc[t] = "push" /\ pc'[t] # "push")
            => /\ pc'[t] = "build"
               /\ requests'[ip[t]] = Append(requests[ip[t]], tnow[t])]_vars

(* nine admissions at 0 and one at 30 filled the log; the request at 61    *)
(* was admitted and recorded                                               *)
C12_Witness ==
    \E t \in Tasks :
        /\ pc[t] = "build"
        /\ tnow[t] = 61
        /\ Len(hist["unknown"]) = Capacity + 1
        /\ hist["unknown"][1] = 0
        /\ hist["unknown"][Capacity] = 30
        /\ requests["unknown"] = <<30, 61>>

LogBefore(t) == IF ip[t] \in DOMAIN requests THEN requests[ip[t]] ELSE <<>>

(* C13 as stated: the prune of a check at time T keeps exactly the entries *)
(* with timestamp >= T - 60, so an entry recorded exactly 60 seconds       *)
(* before T still counts.                                                  *)
C13_PruneKeepsAgeSixty ==
    [][\A t \in Tasks :
         (pc[t] = "retain" /\ pc'[t] = "check") =>
            requests'[ip[t]] =
              SelectSeq(LogBefore(t), LAMBDA time : time >= now - Window)]_vars

(* C13: the prune of a check at time T keeps exactly the entries with      *)
(* timestamp > T - 60 and removes those with timestamp <= T - 60, an entry *)
(* recorded exactly 60 seconds before T included; the request is then      *)
(* decided on the length of that pruned log.                               *)
C13_PruneBoundary ==
    [][\A t \in Tasks :
         /\ (pc[t] = "retain" /\ pc'[t] = "check") =>
               /\ tnow'[t] = now
               /\ requests'[ip[t]] =
                    SelectSeq(LogBefore(t), LAMBDA time : time > now - Window)
         /\ (pc[t] = "check" /\ pc'[t] # "check") =>
               /\ requests' = requests
               /\ pc'[t] = IF Len(requests[ip[t]]) < Capacity
                           THEN "push" ELSE "responded"]_vars

(* ten admissions at time 0, and the request at time 60 admitted *)
C13_Witness ==
    \E t \in Tasks :
        /\ pc[t] = "build"
        /\ tnow[t] = 60
        /\ Len(hist["unknown"]) = Capacity + 1
        /\ hist["unknown"][Capacity] = 0
        /\ requests["unknown"] = <<60>>

(* C14: the step in which is_allowed refuses leaves the identity's pruned  *)
(* log, and the whole table, as it found them; and in every reachable      *)
(* state every identity's log holds at most 10 timestamps.                 *)
C14_RejectDoesNotRecord ==
    /\ \A i \in DOMAIN requests : Len(requests[i]) <= Capacity
    /\ [][/\ \A i \in DOMAIN requests' : Len(requests'[i]) <= Capacity
          /\ \A t \in Tasks :
               (pc[t] = "check" /\ pc'[t] = "responded") =>
                  /\ outcome'[t] = "RateLimit"
                  /\ Len(requests[ip[t]]) = Capacity
                  /\ requests' = requests
                  /\ hist' = hist]_vars

(* a request refused on a full log, its guard dropped, the log still of 10 *)
C14_Witness ==
    /\ holder = NoTask
    /\ \E t \in Tasks : pc[t] = "responded" /\ outcome[t] = "RateLimit"
    /\ Len(requests["unknown"]) = Capacity
    /\ Len(hist["unknown"]) = Capacity

(* the entries of a log that lie after time T *)
Future(log, T) == SelectSeq(log, LAMBDA time : time > T)

(* C15: a check at a time T earlier than entries of the identity's log     *)
(* keeps every such entry in its prune and counts it against the capacity  *)
(* of 10; the check always runs to a decision, admit or reject, and no     *)
(* step of it panics.                                                      *)
C15_BackwardClock ==
    /\ \A t \in Tasks :
         /\ pc[t] = "retain" => ENABLED IsAllowedRetain(t)
         /\ pc[t] = "check" => ENABLED IsAllowedCheck(t)
         /\ pc[t] = "push" => Len(Future(requests[ip[t]], tnow[t])) < Capacity
    /\ [][\A t \in Tasks :
           /\ (pc[t] = "retain" /\ pc'[t] # "retain") =>
                 /\ pc'[t] = "check"
                 /\ Future(requests'[ip[t]], now) = Future(LogBefore(t), now)
           /\ (pc[t] = "check" /\ pc'[t] # "check") =>
                 \/ pc'[t] = "push"
                 \/ pc'[t] = "responded" /\ outcome'[t] = "RateLimit"
           /\ ( /\ pc[t] = "check" /\ pc'[t] # "check"
                /\ Len(Future(requests[ip[t]], tnow[t])) = Capacity )
              => pc'[t] = "responded"]_vars

(* ten admissions at time 61, the clock set back to 0, and a check at 0    *)
(* that has pruned none of them                                            *)
C15_Witness ==
    \E t \in Tasks :
        /\ rewound
        /\ pc[t] = "check"
        /\ tnow[t] = 0
        /\ Len(requests[ip[t]]) = Capacity
        /\ requests[ip[t]][1] = 61

(* every entry of the log lies in the 60-second window trailing T *)
AllInWindow(log, T) ==
    \A k \in 1..Len(log) : T - Window < log[k] /\ log[k] <= T

(* C16: under a clock that does not go back, the log of a check's identity *)
(* holds only timestamps of the 60-second window trailing the check's time *)
(* T when the capacity comparison is made, and when the check has ended,   *)
(* whether it refused or recorded T.                                       *)
C16_WindowInvariant ==
    [][\A t \in Tasks :
         /\ pc'[t] \in {"check", "push"} =>
               AllInWindow(requests'[ip'[t]], tnow'[t])
         /\ (pc[t] = "check" /\ pc'[t] = "responded") =>
               AllInWindow(requests'[ip[t]], tnow[t])
         /\ (pc[t] = "push" /\ pc'[t] # "push") =>
               /\ AllInWindow(requests'[ip[t]], tnow[t])
               /\ requests'[ip[t]][Len(requests'[ip[t]])] = tnow[t]]_vars

(* admissions at 0 and 30; the check at 60 has dropped the first and kept  *)
(* the second before it compares                                           *)
C16_Witness ==
    \E t \in Tasks :
        /\ pc[t] = "check"
        /\ tnow[t] = 60
        /\ hist["unknown"] = <<0, 30>>
        /\ requests["unknown"] = <<30>>

C18_EveryRequestResponds ==
    \A t \in Tasks : (pc[t] = "lock") ~> (pc[t] = "responded")

(* C19: from its admission to its end a request's timestamp is the last   *)
(* entry of its identity's log, and no step of message build or of the     *)
(* send, failed or not, changes the table.                                 *)
C19_SlotNeverRefunded ==
    [][\A t \in Tasks :
         /\ pc'[t] \in {"build", "send", "sending"} =>
               /\ requests'[ip'[t]] # <<>>
               /\ requests'[ip'[t]][Len(requests'[ip'[t]])] = tnow'[t]
         /\ (pc[t] \in {"build", "send", "sending"} /\ pc'[t] # pc[t]) =>
               /\ requests' = requests
               /\ hist' = hist
               /\ requests'[ip[t]][Len(requests'[ip[t]])] = tnow[t]]_vars

(* ten admissions at time 0, a send that failed, and a request refused     *)
(* while the failed request's timestamp is still counted                   *)
C19_Witness ==
    \E t, u \in Tasks :
        /\ now = 0
        /\ pc[t] = "responded" /\ outcome[t] = "SmtpError" /\ sends[t] = 1
        /\ pc[u] = "responded" /\ outcome[u] = "RateLimit"
        /\ Len(requests["unknown"]) = Capacity

====
